---------------------------- MODULE Spec2Model ----------------------------
(***************************************************************************)
(* A model of the learning-Halo2 circuits: the range-check circuit         *)
(* (range_check/src/example1.rs), the range-check-with-lookup circuit      *)
(* (range_check/src/example2.rs, table.rs) and the two Fibonacci circuits  *)
(* (fibonacci/src/appraoch1_2.rs, row-local layout, and appraoch2.rs,       *)
(* rotation layout), each run the way its test / main runs it:             *)
(* MockProver::run (configure, then synthesize, one layouter call per      *)
(* step) followed by verification of the resulting table.                  *)
(*                                                                         *)
(* The layouter, the witness table and the verifier are halo2_proofs code  *)
(* that is not part of the repository's sources; they are modelled from    *)
(* sections 3, 4.2, 4.3 and 4.5 of the specification.                      *)
(***************************************************************************)
EXTENDS Integers, Sequences, FiniteSets, TLC

VARIABLES
    circuit,     \* which program runs: "example1", "example2", "appraoch1_2", "appraoch2"
    params,      \* the const generics [RANGE, LOOKUP_RANGE] of the range-check circuits
    priv,        \* the circuit struct's private fields (value, large_value / a, b)
    instance,    \* the public input vector handed to MockProver::run
    faults,      \* whether layouter calls may return Err in this run
    cs,          \* the constraint system built by configure: gates and lookups
    advice,      \* witness table: assigned advice cells, <<column, row>> -> value
    selectors,   \* enabled selector cells, <<selector, row>>
    table,       \* writes into the lookup table column, in order, <<offset, value>>
    copies,      \* copy constraints: pairs <<advice cell, instance row>>
    regions,     \* regions in request order, [name, start, rows]
    pc,          \* position in MockProver::run / synthesize
    locals,      \* synthesize's local variables (assigned cells, loop counter)
    result,      \* "running", "Ok", "Err" (synthesize returned Err) or "Panic"
    failures,    \* the verifier's ordered failure list
    run,         \* 1 for the first MockProver run of main, 2 for the second
    first,       \* the first run's prover, kept while the second one runs
    hist         \* history of layouter calls: [errored, after]

vars == <<circuit, params, priv, instance, faults, cs, advice, selectors, table,
          copies, regions, pc, locals, result, failures, run, first, hist>>

----------------------------------------------------------------------------
(* Bounds of the model. *)

\* Ranges 1..MaxRange are tried for RANGE and LOOKUP_RANGE, besides the tests' own values.
MaxRange == 3

\* Witness values 0..MaxValue are tried for value and large_value.
MaxValue == 9

\* Seeds and public seeds 0..MaxSeed are tried for a, b and instance rows 0, 1.
MaxSeed == 2

\* Public outputs tried: the run's 10th term plus 0..MaxDelta.
MaxDelta == 1

\* Row counts 2..MaxRows are tried for the nrows handed to FibonacciChip::assign.
MaxRows == 6

----------------------------------------------------------------------------
(* Program constants. *)

\* const RANGE: usize = 8 in test_range_check_1
TestRange == 8

\* const LOOKUP_RANGE: usize = 256 in test_range_check_1 of example2
TestLookupRange == 256

\* nrows handed to FibonacciChip::assign by synthesize
NRows == 10

\* for _i in 3..10 in the row-local synthesize
LoopFrom == 3

\* A loop that stops one turn early.
LoopToShort == 10 - 1

LoopTo == 10

\* the instance row expose_public binds the output cell to
OutRow == 2

\* let k = 4 (example1, fibonacci), let k = 9 (example2): the table has 2^k rows
K4Rows == 16

K9Rows == 512

----------------------------------------------------------------------------
(* The field.  pasta::Fp is abstracted by the prime field of order         *)
(* FieldOrder: every value of the bounded runs is far below it, so         *)
(* F::from, +, - and * agree with Fp on them and products of non-zero      *)
(* elements are non-zero.                                                  *)

FieldOrder == 32749

F_from(n) == n % FieldOrder

F_add(x, y) == (x + y) % FieldOrder

F_neg(x) == (FieldOrder - x) % FieldOrder

F_mul(x, y) == (x * y) % FieldOrder

\* Option<F>::None / Value::unknown()
None == -1


----------------------------------------------------------------------------
(* Expressions (plonk::Expression) as tagged records. *)

Constant(c) == [tag |-> "Constant", c |-> c]

query_advice(column, rotation) == [tag |-> "Advice", column |-> column, rotation |-> rotation]

query_selector(s) == [tag |-> "Selector", selector |-> s]

Sum(l, r) == [tag |-> "Sum", l |-> l, r |-> r]

Product(l, r) == [tag |-> "Product", l |-> l, r |-> r]

Negated(e) == [tag |-> "Negated", e |-> e]

\* a - b on expressions
Sub(l, r) == Sum(l, Negated(r))

\* Rotation::cur(), Rotation::next(), Rotation(2)
Rotation_cur == 0

Rotation_next == 1

\* The third cell of the rotation gate queried at the second cell's rotation.
Rotation_1 == 0 + 1

Rotation_2 == 2

RECURSIVE range_check_fold(_, _, _)
\* (0..range).fold(init, |expr, i| expr * (Constant(F::from(i)) - value))
range_check_fold(range, init, value) ==
    IF range = 0 THEN init
    ELSE Product(range_check_fold(range - 1, init, value),
                 Sub(Constant(F_from(range - 1)), value))

\* A fold that stops one short: the last factor (range - 1 - value) is missing.
range_check_short(range, value) ==
    range_check_fold(range - 1, value, value)

\* the range_check closure of configure: the fold starts from value itself
range_check(range, value) ==
    range_check_fold(range, value, value)

\* Constraints::with_selector(q, [(name, expr)]): each expression is multiplied by q
with_selector(q, name, expr) ==
    << [name |-> name, poly |-> Product(q, expr)] >>

\* the "Range check" gate of both range-check circuits
RangeCheckGate(RANGE) ==
    [name |-> "Range check",
     constraints |->
        with_selector(query_selector("q_range_check"), "range_check",
                      range_check(RANGE, query_advice(0, Rotation_cur)))]

\* RangeCheckConfig::configure of example1
example1_configure(RANGE) ==
    [gates |-> << RangeCheckGate(RANGE) >>,
     lookups |-> << >>,
     equality |-> {}]

\* A lookup input that is not gated by its selector: vec![(value, table.value)].
LookupInputUngated == query_advice(0, Rotation_cur)

\* the input expression of the lookup: q_lookup * value
LookupInput == Product(query_selector("q_lookup"), query_advice(0, Rotation_cur))

\* RangeCheckConfig::configure of example2: the gate, then the lookup
\* vec![(q_lookup * value, table.value)]
example2_configure(RANGE) ==
    [gates |-> << RangeCheckGate(RANGE) >>,
     lookups |-> << [input |-> LookupInput, table |-> "table.value"] >>,
     equality |-> {}]

\* the unnamed constraint s * (a + b - c) of a gate "add"
AddGate(a, b, c) ==
    [name |-> "add",
     constraints |->
        << [name |-> "",
            poly |-> Product(query_selector("selector"), Sub(Sum(a, b), c))] >>]

\* FiboChip::configure of appraoch1_2: three advice columns at the current row
appraoch1_2_configure ==
    [gates |-> << AddGate(query_advice(0, Rotation_cur),
                          query_advice(1, Rotation_cur),
                          query_advice(2, Rotation_cur)) >>,
     lookups |-> << >>,
     equality |-> {<<"Advice", 0>>, <<"Advice", 1>>, <<"Advice", 2>>, <<"Instance", 0>>}]

\* FibonacciChip::configure of appraoch2: one advice column at rotations 0, 1, 2
appraoch2_configure ==
    [gates |-> << AddGate(query_advice(0, Rotation_cur),
                          query_advice(0, Rotation_next),
                          query_advice(0, Rotation_2)) >>,
     lookups |-> << >>,
     equality |-> {<<"Advice", 0>>, <<"Instance", 0>>}]

\* Circuit::configure of the running circuit
Configure(c, p) ==
    CASE c = "example1" -> example1_configure(p.RANGE)
      [] c = "example2" -> example2_configure(p.RANGE)
      [] c = "appraoch1_2" -> appraoch1_2_configure
      [] c = "appraoch2" -> appraoch2_configure

\* 2^k, the number of rows of the table
NumRows(c) == IF c = "example2" THEN K9Rows ELSE K4Rows

----------------------------------------------------------------------------
(* Evaluation of an expression at an absolute row of a table. *)

\* the value of an advice cell; an unassigned cell reads as zero
AdviceAt(adv, column, row) ==
    IF <<column, row>> \in DOMAIN adv THEN adv[<<column, row>>] ELSE 0

\* the public input at a row; rows past the vector read as zero
InstanceAt(inst, row) ==
    IF row < Len(inst) THEN inst[row + 1] ELSE 0

RECURSIVE Eval(_, _, _, _)
Eval(e, row, adv, sel) ==
    CASE e.tag = "Constant" -> e.c
      [] e.tag = "Advice" -> AdviceAt(adv, e.column, row + e.rotation)
      [] e.tag = "Selector" -> IF <<e.selector, row>> \in sel THEN 1 ELSE 0
      [] e.tag = "Sum" -> F_add(Eval(e.l, row, adv, sel), Eval(e.r, row, adv, sel))
      [] e.tag = "Product" ->
            \* a zero left factor makes the product zero whatever the right one is
            LET l == Eval(e.l, row, adv, sel)
            IN  IF l = 0 THEN 0 ELSE F_mul(l, Eval(e.r, row, adv, sel))
      [] e.tag = "Negated" -> F_neg(Eval(e.e, row, adv, sel))

RECURSIVE Queries(_)
\* the advice cells an expression queries, as <<column, rotation>>
Queries(e) ==
    CASE e.tag = "Advice" -> {<<e.column, e.rotation>>}
      [] e.tag \in {"Sum", "Product"} -> Queries(e.l) \cup Queries(e.r)
      [] e.tag = "Negated" -> Queries(e.e)
      [] OTHER -> {}

----------------------------------------------------------------------------
(* How a failure prints a field element: 0, 1 and -1 as such, any other    *)
(* value in hexadecimal without leading zeros.                             *)

HexDigits == <<"0", "1", "2", "3", "4", "5", "6", "7",
               "8", "9", "a", "b", "c", "d", "e", "f">>

RECURSIVE Hex(_)
Hex(n) == IF n < 16 THEN HexDigits[n + 1]
          ELSE Hex(n \div 16) \o HexDigits[(n % 16) + 1]

format_value(v) ==
    IF v = 0 THEN "0"
    ELSE IF v = 1 THEN "1"
    ELSE IF v = FieldOrder - 1 THEN "-1"
    ELSE "0x" \o Hex(v)


----------------------------------------------------------------------------
(* The verifier: one full pass over a frozen table.  Gate violations come  *)
(* first, ordered by row, gate and constraint, then lookup failures by     *)
(* lookup and row, then the violated copy / public-input bindings in       *)
(* binding order.                                                          *)

\* lexicographic order on tuples of three numbers
LexLeq(x, y) ==
    \/ x[1] < y[1]
    \/ x[1] = y[1] /\ x[2] < y[2]
    \/ x[1] = y[1] /\ x[2] = y[2] /\ x[3] <= y[3]

RECURSIVE SortedSeq(_)
SortedSeq(S) ==
    IF S = {} THEN << >>
    ELSE LET m == CHOOSE x \in S : \A y \in S : LexLeq(x, y)
         IN  << m >> \o SortedSeq(S \ {m})

\* the region holding an absolute row (with the local offset), or the bare row
Location(regs, row) ==
    LET in == {i \in 1..Len(regs) :
                  regs[i].start <= row /\ row < regs[i].start + regs[i].rows}
    IN  IF in # {}
        THEN LET i == CHOOSE j \in in : TRUE
             IN  [kind |-> "InRegion",
                  region |-> [index |-> i - 1, name |-> regs[i].name],
                  offset |-> row - regs[i].start]
        ELSE [kind |-> "OutsideRegion",
              region |-> [index |-> -1, name |-> ""],
              offset |-> row]

ConstraintNotSatisfied(sys, adv, sel, regs, row, g, c) ==
    LET poly == sys.gates[g].constraints[c].poly
    IN  [kind |-> "ConstraintNotSatisfied",
         gate |-> [index |-> g - 1, name |-> sys.gates[g].name],
         constraint |-> [index |-> c - 1, name |-> sys.gates[g].constraints[c].name],
         location |-> Location(regs, row),
         cell_values |->
            {[column |-> <<"Advice", q[1]>>, rotation |-> q[2],
              value |-> format_value(AdviceAt(adv, q[1], row + q[2]))] : q \in Queries(poly)}]

GateFailures(sys, adv, sel, regs, nrows) ==
    LET bad == {t \in UNION {{<<r, g, c>> : c \in 1..Len(sys.gates[g].constraints)} :
                                <<r, g>> \in (0..(nrows - 1)) \X (1..Len(sys.gates))} :
                   Eval(sys.gates[t[2]].constraints[t[3]].poly, t[1], adv, sel) # 0}
        order == SortedSeq(bad)
    IN  [i \in 1..Len(order) |->
            ConstraintNotSatisfied(sys, adv, sel, regs, order[i][1], order[i][2], order[i][3])]

\* the values held by the table column
TableValues(tab) == {tab[i][2] : i \in 1..Len(tab)}

LookupFailures(sys, adv, sel, tab, regs, nrows) ==
    LET values == TableValues(tab)
        bad == {t \in {<<l, r, 0>> : <<l, r>> \in (1..Len(sys.lookups)) \X (0..(nrows - 1))} :
                   Eval(sys.lookups[t[1]].input, t[2], adv, sel) \notin values}
        order == SortedSeq(bad)
    IN  [i \in 1..Len(order) |->
            [kind |-> "LookupFailure",
             lookup_index |-> order[i][1] - 1,
             location |-> Location(regs, order[i][2]),
             value |-> format_value(Eval(sys.lookups[order[i][1]].input, order[i][2], adv, sel))]]

\* the value a copy constraint's end holds
CellValue(ref, adv, inst) ==
    IF ref.column[1] = "Instance" THEN InstanceAt(inst, ref.row)
    ELSE AdviceAt(adv, ref.column[2], ref.row)

CopyFailures(adv, cps, inst) ==
    LET Broken(c) == CellValue(c.left, adv, inst) # CellValue(c.right, adv, inst)
        bad == SelectSeq(cps, Broken)
    IN  [i \in 1..Len(bad) |->
            [kind |-> IF bad[i].right.column[1] = "Instance"
                      THEN "PublicInputMismatch" ELSE "ConflictingAssignment",
             cell |-> bad[i].left,
             row |-> bad[i].right.row]]

verify(sys, adv, sel, tab, cps, regs, inst, nrows) ==
    GateFailures(sys, adv, sel, regs, nrows)
        \o LookupFailures(sys, adv, sel, tab, regs, nrows)
        \o CopyFailures(adv, cps, inst)

----------------------------------------------------------------------------
(* Copy-constraint groups: copy(cell_a, cell_b) unions the two cells into  *)
(* one group; groups are symmetric and transitive.                         *)

\* the pairs of cells that copy constraints between advice cells join
CopyPairs(cps) ==
    {<<cps[i].left, cps[i].right>> : i \in {j \in 1..Len(cps) : cps[j].via = "copy_advice"}}

RECURSIVE GroupFrom(_, _)
\* the cells reachable from the cells S over the pairs, in either direction
GroupFrom(S, pairs) ==
    LET more == S \cup {p[2] : p \in {q \in pairs : q[1] \in S}}
                  \cup {p[1] : p \in {q \in pairs : q[2] \in S}}
    IN  IF more = S THEN S ELSE GroupFrom(more, pairs)

\* the copy-constraint group of a cell
Group(cell, cps) == GroupFrom({cell}, CopyPairs(cps))

----------------------------------------------------------------------------
(* The layouter: regions are placed one after the other in request order;  *)
(* a region reserves max(local offset used) + 1 rows.                      *)

Max(x, y) == IF x >= y THEN x ELSE y

\* the row cursor: the first row after the last region
Cursor(regs) ==
    IF regs = << >> THEN 0 ELSE regs[Len(regs)].start + regs[Len(regs)].rows

\* assign_region(|| name, ...): a new region at the cursor
OpenRegion(regs, name) ==
    Append(regs, [name |-> name, start |-> Cursor(regs), rows |-> 0])

\* a use of local offset `offset` in the current (last) region
Touch(regs, offset) ==
    [regs EXCEPT ![Len(regs)].rows = Max(@, offset + 1)]

\* the absolute row of a local offset of the current region
Abs(regs, offset) == regs[Len(regs)].start + offset

AdviceCell(column, row) == [column |-> <<"Advice", column>>, row |-> row]

InstanceCell(row) == [column |-> <<"Instance", 0>>, row |-> row]

\* an AssignedCell: where it is and what it holds
AssignedCell(column, row, value) == [column |-> column, row |-> row, value |-> value]

\* the outcomes a layouter call may have: Ok, and Err where faults are injected
ErrOutcomes == IF faults THEN BOOLEAN ELSE {FALSE}

\* the history after one more layouter call, which returned Err iff err
Called(err) ==
    [calls |-> hist.calls + 1,
     errored |-> hist.errored \/ err,
     after |-> hist.after + (IF hist.errored THEN 1 ELSE 0)]


----------------------------------------------------------------------------
(* Inputs and the initial state: a circuit value and a public input, as    *)
(* the tests and main build them, before MockProver::run.                  *)

Circuits == {"example1", "example2", "appraoch1_2", "appraoch2"}

Fibonacci == {"appraoch1_2", "appraoch2"}

Ranges == (1..MaxRange) \cup {TestRange}

Values == 0..MaxValue

Seeds == {None} \cup (0..MaxSeed)

RECURSIVE Term(_, _, _)
\* the n-th term (n >= 1) of the sequence x, y, x + y, ...
Term(x, y, n) ==
    IF n = 1 THEN x ELSE IF n = 2 THEN y
    ELSE F_add(Term(x, y, n - 2), Term(x, y, n - 1))

\* public outputs worth trying for private seeds (a, b) and public seeds (x, y)
Outputs(a, b, x, y) ==
    {F_add(Term(x, y, NRows), d) : d \in 0..MaxDelta}
        \cup (IF a # None /\ b # None
              THEN {F_add(Term(a, b, NRows), d) : d \in 0..MaxDelta} ELSE {})

NoProver == << >>

NoHistory == [calls |-> 0, errored |-> FALSE, after |-> 0]

NoConstraintSystem == [gates |-> << >>, lookups |-> << >>, equality |-> {}]

\* a prover as MockProver::run first builds it: nothing configured or assigned
FreshProver ==
    /\ cs = NoConstraintSystem
    /\ advice = << >>
    /\ selectors = {}
    /\ table = << >>
    /\ copies = << >>
    /\ regions = << >>
    /\ pc = "configure"
    /\ locals = << >>
    /\ result = "running"
    /\ failures = << >>
    /\ hist = NoHistory

InitInputs ==
    /\ circuit \in Circuits
    /\ \/ /\ circuit = "example1"
          /\ params \in [RANGE : Ranges]
          /\ priv \in [value : Values]
          /\ instance = << >>
       \/ /\ circuit = "example2"
          /\ \/ /\ params \in [RANGE : Ranges, LOOKUP_RANGE : Ranges]
                /\ priv \in [value : Values, large_value : Values]
             \/ /\ params = [RANGE |-> TestRange, LOOKUP_RANGE |-> TestLookupRange]
                /\ \E i \in Values : priv = [value |-> i, large_value |-> i]
          /\ instance = << >>
       \/ /\ circuit \in Fibonacci
          /\ params = [nrows |-> NRows]
          /\ priv \in [a : Seeds, b : Seeds]
          /\ \E x \in 0..MaxSeed, y \in 0..MaxSeed :
                \E out \in Outputs(priv.a, priv.b, x, y) : instance = <<x, y, out>>
    /\ run = 1
    /\ first = NoProver
    /\ FreshProver

Init == InitInputs /\ faults = FALSE

InitFault == InitInputs /\ faults = TRUE

----------------------------------------------------------------------------
(* MockProver::run: configure, then synthesize.                            *)

inputs == <<circuit, params, priv, faults>>

\* A loader whose loop takes one more turn: for i in 0..=RANGE.
LoadAtInclusive(i, RANGE) == IF i <= RANGE THEN "e2_load" ELSE "e2_enter"

\* where the loop `for i in 0..RANGE` of load goes at `i`: the next cell, or past
\* the loop, Ok(()) and the first call of assign
LoadAt(i, RANGE) == IF i < RANGE THEN "e2_load" ELSE "e2_enter"

\* where synthesize of each circuit starts
Entry(c, p) ==
    CASE c = "example1" -> "e1_enable"
      [] c = "example2" -> LoadAt(0, p.LOOKUP_RANGE)
      [] c = "appraoch1_2" -> "r_first_enable"
      [] c = "appraoch2" -> "t_enable"

\* a cell variable not yet bound
NoCell == [column |-> 0, row |-> 0, value |-> None]

\* synthesize's local variables on entry
EntryLocals(c) ==
    CASE c = "example1" -> [call |-> 1]
      [] c = "example2" -> [call |-> 1, i |-> 0, offset |-> 0]
      [] c = "appraoch1_2" ->
            [i |-> LoopFrom, prev_a |-> NoCell, prev_b |-> NoCell, prev_c |-> NoCell]
      [] c = "appraoch2" -> [row |-> 0, a_cell |-> NoCell, b_cell |-> NoCell]

ConfigureStep ==
    /\ pc = "configure"
    /\ cs' = Configure(circuit, params)
    /\ pc' = Entry(circuit, params)
    /\ locals' = EntryLocals(circuit)
    /\ UNCHANGED <<inputs, instance, advice, selectors, table, copies, regions,
                   result, failures, run, first, hist>>

\* an Err propagated by `?`: synthesize returns it, nothing else is done
Propagate ==
    /\ result' = "Err"
    /\ pc' = "returned"
    /\ UNCHANGED <<advice, selectors, table, copies, regions, locals>>

\* what a step of synthesize leaves alone
Frame == UNCHANGED <<inputs, instance, cs, failures, run, first>>

----------------------------------------------------------------------------
(* example1: MyCircuit::synthesize -> RangeCheckConfig::assign             *)

\* self.q_range_check.enable(&mut region, offset)? in region "Assign value"
E1_Enable ==
    /\ pc = "e1_enable"
    /\ \E err \in ErrOutcomes :
          /\ hist' = Called(err)
          /\ IF err THEN Propagate
             ELSE /\ regions' = Touch(OpenRegion(regions, "Assign value"), 0)
                  /\ selectors' = selectors \cup {<<"q_range_check", Cursor(regions) + 0>>}
                  /\ pc' = "e1_assign"
                  /\ UNCHANGED <<advice, table, copies, locals, result>>
    /\ Frame

\* region.assign_advice(|| "assign value", self.value, offset, || value)?
E1_AssignAdvice ==
    /\ pc = "e1_assign"
    /\ \E err \in ErrOutcomes :
          /\ hist' = Called(err)
          /\ IF err THEN Propagate
             ELSE /\ advice' = (<<0, Abs(regions, 0)>> :> priv.value) @@ advice
                  /\ regions' = Touch(regions, 0)
                  /\ pc' = "verify"
                  /\ result' = "Ok"
                  /\ UNCHANGED <<selectors, table, copies, locals>>
    /\ Frame

----------------------------------------------------------------------------
(* example2: MyCircuit::synthesize -> RangeCheckTable::load, then two      *)
(* calls of RangeCheckConfig::assign                                       *)

\* A loader that never uses its offset: every cell is written at offset 0.
assign_cell_at_zero(tab, offset, i) == Append(tab, <<0, F_from(i)>>)

\* table.assign_cell(|| "assign cell", self.value, offset, || Value::known(F::from(i)))
assign_cell(tab, offset, i) == Append(tab, <<offset, F_from(i)>>)

\* RangeCheckTable::load, one turn of its loop:
\* table.assign_cell(.., offset, F::from(i))?; offset += 1;
E2_Load ==
    /\ pc = "e2_load"
    /\ \E err \in ErrOutcomes :
          /\ hist' = Called(err)
          /\ IF err THEN Propagate
             ELSE /\ table' = assign_cell(table, locals.offset, locals.i)
                  /\ locals' = [locals EXCEPT !.offset = locals.offset + 1,
                                              !.i = locals.i + 1]
                  /\ pc' = LoadAt(locals.i + 1, params.LOOKUP_RANGE)
                  /\ UNCHANGED <<advice, selectors, copies, regions, result>>
    /\ Frame

\* the (value, range) arguments of the first and second call of assign
AssignValue == IF locals.call = 1 THEN priv.value ELSE priv.large_value

AssignRange == IF locals.call = 1 THEN params.RANGE ELSE params.LOOKUP_RANGE

\* assert!(range <= RANGE); then the branch on range < RANGE, and the
\* selector enabled at offset 0 of the branch's region
E2_Enter ==
    /\ pc = "e2_enter"
    /\ IF ~(AssignRange <= params.RANGE)
       THEN /\ result' = "Panic"
            /\ pc' = "panicked"
            /\ UNCHANGED <<advice, selectors, table, copies, regions, locals, hist>>
       ELSE \E err \in ErrOutcomes :
              /\ hist' = Called(err)
              /\ IF err THEN Propagate
                 ELSE /\ IF AssignRange < params.RANGE
                         THEN /\ regions' = Touch(OpenRegion(regions, "Assign value"), 0)
                              /\ selectors' = selectors \cup
                                    {<<"q_range_check", Cursor(regions) + 0>>}
                         ELSE /\ regions' = Touch(OpenRegion(regions,
                                               "Assign value for lookup range check"), 0)
                              /\ selectors' = selectors \cup
                                    {<<"q_lookup", Cursor(regions) + 0>>}
                      /\ pc' = "e2_assign"
                      /\ UNCHANGED <<advice, table, copies, locals, result>>
    /\ Frame

\* region.assign_advice(|| "assign value", self.value, offset, || value)?
E2_AssignAdvice ==
    /\ pc = "e2_assign"
    /\ \E err \in ErrOutcomes :
          /\ hist' = Called(err)
          /\ IF err THEN Propagate
             ELSE /\ advice' = (<<0, Abs(regions, 0)>> :> AssignValue) @@ advice
                  /\ regions' = Touch(regions, 0)
                  /\ IF locals.call = 1
                     THEN /\ locals' = [locals EXCEPT !.call = 2]
                          /\ pc' = "e2_enter"
                          /\ UNCHANGED result
                     ELSE /\ pc' = "verify"
                          /\ result' = "Ok"
                          /\ UNCHANGED locals
                  /\ UNCHANGED <<selectors, table, copies>>
    /\ Frame


----------------------------------------------------------------------------
(* appraoch1_2 (row-local layout): MyCircuit::synthesize ->                *)
(* assign_first_row, expose_public twice, seven assign_row, expose_public  *)

\* the value of c_val: Some(x + y) when both are known
AddOptions(x, y) == IF x = None \/ y = None THEN None ELSE F_add(x, y)

\* region.assign_advice(.., column, offset, || v.ok_or(Error::Synthesis)) in the
\* current region: Err when the layouter fails or the value is None
AssignAdviceOk(err, v) == ~err /\ v # None

\* self.config.selector.enable(&mut region, 0)? in region "first row"
R_FirstEnable ==
    /\ pc = "r_first_enable"
    /\ \E err \in ErrOutcomes :
          /\ hist' = Called(err)
          /\ IF err THEN Propagate
             ELSE /\ regions' = Touch(OpenRegion(regions, "first row"), 0)
                  /\ selectors' = selectors \cup {<<"selector", Cursor(regions) + 0>>}
                  /\ pc' = "r_first_a"
                  /\ UNCHANGED <<advice, table, copies, locals, result>>
    /\ Frame

\* let a_cell = region.assign_advice(|| "a", advice[0], 0, || a.ok_or(..)).map(ACell)?
R_FirstA ==
    /\ pc = "r_first_a"
    /\ \E err \in ErrOutcomes :
          /\ hist' = Called(~AssignAdviceOk(err, priv.a))
          /\ IF ~AssignAdviceOk(err, priv.a) THEN Propagate
             ELSE /\ advice' = (<<0, Abs(regions, 0)>> :> priv.a) @@ advice
                  /\ regions' = Touch(regions, 0)
                  /\ locals' = [locals EXCEPT
                                  !.prev_a = AssignedCell(0, Abs(regions, 0), priv.a)]
                  /\ pc' = "r_first_b"
                  /\ UNCHANGED <<selectors, table, copies, result>>
    /\ Frame

\* let b_cell = region.assign_advice(|| "b", advice[1], 0, || b.ok_or(..)).map(ACell)?
R_FirstB ==
    /\ pc = "r_first_b"
    /\ \E err \in ErrOutcomes :
          /\ hist' = Called(~AssignAdviceOk(err, priv.b))
          /\ IF ~AssignAdviceOk(err, priv.b) THEN Propagate
             ELSE /\ advice' = (<<1, Abs(regions, 0)>> :> priv.b) @@ advice
                  /\ regions' = Touch(regions, 0)
                  /\ locals' = [locals EXCEPT
                                  !.prev_b = AssignedCell(1, Abs(regions, 0), priv.b)]
                  /\ pc' = "r_first_c"
                  /\ UNCHANGED <<selectors, table, copies, result>>
    /\ Frame

\* let c_val = a.and_then(|a| b.map(|b| a + b));
\* let c_cell = region.assign_advice(|| "c", advice[2], 0, || c_val.ok_or(..)).map(ACell)?
R_FirstC ==
    /\ pc = "r_first_c"
    /\ LET c_val == AddOptions(priv.a, priv.b) IN
       \E err \in ErrOutcomes :
          /\ hist' = Called(~AssignAdviceOk(err, c_val))
          /\ IF ~AssignAdviceOk(err, c_val) THEN Propagate
             ELSE /\ advice' = (<<2, Abs(regions, 0)>> :> c_val) @@ advice
                  /\ regions' = Touch(regions, 0)
                  /\ locals' = [locals EXCEPT
                                  !.prev_c = AssignedCell(2, Abs(regions, 0), c_val)]
                  /\ pc' = "r_expose_a"
                  /\ UNCHANGED <<selectors, table, copies, result>>
    /\ Frame

\* layouter.constrain_instance(cell.0.cell(), self.config.instance, row)
constrain_instance(cps, cell, row) ==
    Append(cps, [left |-> AdviceCell(cell.column, cell.row),
                 right |-> InstanceCell(row),
                 via |-> "constrain_instance"])

\* chip.expose_public(.., &prev_a, 0);   the Result is dropped
R_ExposeA ==
    /\ pc = "r_expose_a"
    /\ \E err \in ErrOutcomes :
          /\ hist' = Called(err)
          /\ copies' = IF err THEN copies ELSE constrain_instance(copies, locals.prev_a, 0)
    /\ pc' = "r_expose_b"
    /\ UNCHANGED <<advice, selectors, table, regions, locals, result>>
    /\ Frame

\* chip.expose_public(.., &prev_b, 1);   the Result is dropped; then the loop starts
R_ExposeB ==
    /\ pc = "r_expose_b"
    /\ \E err \in ErrOutcomes :
          /\ hist' = Called(err)
          /\ copies' = IF err THEN copies ELSE constrain_instance(copies, locals.prev_b, 1)
    /\ pc' = IF locals.i < LoopTo THEN "r_row_enable" ELSE "r_expose_out"
    /\ UNCHANGED <<advice, selectors, table, regions, locals, result>>
    /\ Frame

\* assign_row: self.config.selector.enable(&mut region, 0)? in region "next row"
R_RowEnable ==
    /\ pc = "r_row_enable"
    /\ \E err \in ErrOutcomes :
          /\ hist' = Called(err)
          /\ IF err THEN Propagate
             ELSE /\ regions' = Touch(OpenRegion(regions, "next row"), 0)
                  /\ selectors' = selectors \cup {<<"selector", Cursor(regions) + 0>>}
                  /\ pc' = "r_row_copy_a"
                  /\ UNCHANGED <<advice, table, copies, locals, result>>
    /\ Frame

\* A copy that only assigns the value: no equality constraint is recorded.
assign_without_copy(cps, cell, column, row) == cps

\* cell.copy_advice(.., &mut region, column, offset): the new cell takes the
\* cell's value and is constrained equal to it
copy_advice(cps, cell, column, row) ==
    Append(cps, [left |-> AdviceCell(column, row),
                 right |-> AdviceCell(cell.column, cell.row),
                 via |-> "copy_advice"])

\* assign_row writing one row below the row its selector is enabled at.
RowOffsetNext == 0 + 1

\* the local offset assign_row writes its three cells at
RowOffset == 0

\* prev_b.0.copy_advice(|| "a", &mut region, self.config.advice[0], 0)?
R_RowCopyA ==
    /\ pc = "r_row_copy_a"
    /\ \E err \in ErrOutcomes :
          /\ hist' = Called(err)
          /\ IF err THEN Propagate
             ELSE /\ advice' = (<<0, Abs(regions, RowOffset)>> :> locals.prev_b.value) @@ advice
                  /\ copies' = copy_advice(copies, locals.prev_b, 0, Abs(regions, RowOffset))
                  /\ regions' = Touch(regions, RowOffset)
                  /\ pc' = "r_row_copy_b"
                  /\ UNCHANGED <<selectors, table, locals, result>>
    /\ Frame

\* prev_c.0.copy_advice(|| "b", &mut region, self.config.advice[1], 0)?
R_RowCopyB ==
    /\ pc = "r_row_copy_b"
    /\ \E err \in ErrOutcomes :
          /\ hist' = Called(err)
          /\ IF err THEN Propagate
             ELSE /\ advice' = (<<1, Abs(regions, RowOffset)>> :> locals.prev_c.value) @@ advice
                  /\ copies' = copy_advice(copies, locals.prev_c, 1, Abs(regions, RowOffset))
                  /\ regions' = Touch(regions, RowOffset)
                  /\ pc' = "r_row_c"
                  /\ UNCHANGED <<selectors, table, locals, result>>
    /\ Frame

\* let c_val = prev_b.value + prev_c.value;
\* let c_cell = region.assign_advice(|| "c", advice[2], 0, ..)?;
\* back in synthesize: prev_b = prev_c; prev_c = c_cell; next _i
R_RowC ==
    /\ pc = "r_row_c"
    /\ LET c_val == AddOptions(locals.prev_b.value, locals.prev_c.value) IN
       \E err \in ErrOutcomes :
          /\ hist' = Called(~AssignAdviceOk(err, c_val))
          /\ IF ~AssignAdviceOk(err, c_val) THEN Propagate
             ELSE /\ advice' = (<<2, Abs(regions, RowOffset)>> :> c_val) @@ advice
                  /\ regions' = Touch(regions, RowOffset)
                  /\ locals' = [locals EXCEPT
                                  !.prev_b = locals.prev_c,
                                  !.prev_c = AssignedCell(2, Abs(regions, RowOffset), c_val),
                                  !.i = locals.i + 1]
                  /\ pc' = IF locals.i + 1 < LoopTo THEN "r_row_enable" ELSE "r_expose_out"
                  /\ UNCHANGED <<selectors, table, copies, result>>
    /\ Frame

\* chip.expose_public(.., &prev_c, 2);   the Result is dropped; then Ok(())
R_ExposeOut ==
    /\ pc = "r_expose_out"
    /\ \E err \in ErrOutcomes :
          /\ hist' = Called(err)
          /\ copies' = IF err THEN copies
                       ELSE constrain_instance(copies, locals.prev_c, OutRow)
    /\ pc' = "verify"
    /\ result' = "Ok"
    /\ UNCHANGED <<advice, selectors, table, regions, locals>>
    /\ Frame


----------------------------------------------------------------------------
(* appraoch2 (rotation layout): MyCircuit::synthesize ->                   *)
(* FibonacciChip::assign(nrows = 10), then expose_public(out_cell, 2)?     *)

\* where the loop `for row in 2..nrows` goes at `row`: the selector enable when
\* row < nrows - 2, else the assignment; past the loop, Ok(b_cell) and expose_public
LoopAt(row, nrows) ==
    IF row < nrows
    THEN (IF row < nrows - 2 THEN "t_loop_enable" ELSE "t_loop_assign")
    ELSE "t_expose"

\* self.config.selector.enable(&mut region, 0)?; self.config.selector.enable(&mut region, 1)?
\* in region "entire fibonacci table"
T_Enable ==
    /\ pc = "t_enable"
    /\ \E err \in ErrOutcomes :
          /\ hist' = Called(err)
          /\ IF err THEN Propagate
             ELSE /\ IF locals.row = 0
                     THEN /\ regions' = Touch(OpenRegion(regions, "entire fibonacci table"), 0)
                          /\ selectors' = selectors \cup {<<"selector", Cursor(regions) + 0>>}
                          /\ locals' = [locals EXCEPT !.row = 1]
                          /\ pc' = "t_enable"
                     ELSE /\ regions' = Touch(regions, 1)
                          /\ selectors' = selectors \cup {<<"selector", Abs(regions, 1)>>}
                          /\ locals' = [locals EXCEPT !.row = 0]
                          /\ pc' = "t_instance"
                  /\ UNCHANGED <<advice, table, copies, result>>
    /\ Frame

\* region.assign_advice_from_instance(.., instance, row, advice, offset): the cell
\* takes the public value and is constrained equal to the instance cell
assign_advice_from_instance(cps, row, column, abs) ==
    Append(cps, [left |-> AdviceCell(column, abs),
                 right |-> InstanceCell(row),
                 via |-> "assign_advice_from_instance"])

\* A first cell that takes the circuit's private seed, as the row-local layout does.
SeedValueFromCircuit(row) == IF row = 0 THEN priv.a ELSE priv.b

\* the value assign_advice_from_instance gives the cell: the public input at the row
SeedValue(row) == InstanceAt(instance, row)

\* let mut a_cell = region.assign_advice_from_instance(|| "1", instance, 0, advice, 0)?;
\* let mut b_cell = region.assign_advice_from_instance(|| "2", instance, 1, advice, 1)?;
T_FromInstance ==
    /\ pc = "t_instance"
    /\ \E err \in ErrOutcomes :
          /\ hist' = Called(err)
          /\ IF err THEN Propagate
             ELSE LET row == locals.row
                      v == SeedValue(row)
                      cell == AssignedCell(0, Abs(regions, row), v)
                  IN  /\ advice' = (<<0, Abs(regions, row)>> :> v) @@ advice
                      /\ copies' = assign_advice_from_instance(copies, row, 0, Abs(regions, row))
                      /\ regions' = Touch(regions, row)
                      /\ IF row = 0
                         THEN /\ locals' = [locals EXCEPT !.a_cell = cell, !.row = 1]
                              /\ pc' = "t_instance"
                         ELSE /\ locals' = [locals EXCEPT !.b_cell = cell, !.row = 2]
                              /\ pc' = LoopAt(2, params.nrows)
                      /\ UNCHANGED <<selectors, table, result>>
    /\ Frame

\* if row < nrows - 2 { self.config.selector.enable(&mut region, row)?; }
T_LoopEnable ==
    /\ pc = "t_loop_enable"
    /\ \E err \in ErrOutcomes :
          /\ hist' = Called(err)
          /\ IF err THEN Propagate
             ELSE /\ selectors' = selectors \cup {<<"selector", Abs(regions, locals.row)>>}
                  /\ regions' = Touch(regions, locals.row)
                  /\ pc' = "t_loop_assign"
                  /\ UNCHANGED <<advice, table, copies, locals, result>>
    /\ Frame

\* let c_val = a_cell.value + b_cell.value;
\* let c_cell = region.assign_advice(|| "advice", advice, row, || c_val.ok_or(..))?;
\* a_cell = b_cell; b_cell = c_cell; next row
T_LoopAssign ==
    /\ pc = "t_loop_assign"
    /\ LET c_val == AddOptions(locals.a_cell.value, locals.b_cell.value)
           row == locals.row
       IN
       \E err \in ErrOutcomes :
          /\ hist' = Called(~AssignAdviceOk(err, c_val))
          /\ IF ~AssignAdviceOk(err, c_val) THEN Propagate
             ELSE /\ advice' = (<<0, Abs(regions, row)>> :> c_val) @@ advice
                  /\ regions' = Touch(regions, row)
                  /\ locals' = [locals EXCEPT
                                  !.a_cell = locals.b_cell,
                                  !.b_cell = AssignedCell(0, Abs(regions, row), c_val),
                                  !.row = row + 1]
                  /\ pc' = LoopAt(row + 1, params.nrows)
                  /\ UNCHANGED <<selectors, table, copies, result>>
    /\ Frame

\* chip.expose_public(layouter.namespace(|| "out"), out_cell, 2)?; Ok(())
T_Expose ==
    /\ pc = "t_expose"
    /\ \E err \in ErrOutcomes :
          /\ hist' = Called(err)
          /\ IF err THEN Propagate
             ELSE /\ copies' = constrain_instance(copies, locals.b_cell, OutRow)
                  /\ pc' = "verify"
                  /\ result' = "Ok"
                  /\ UNCHANGED <<advice, selectors, table, regions, locals>>
    /\ Frame

----------------------------------------------------------------------------
(* After MockProver::run(..).unwrap(): verification, and main's second run *)

\* prover.verify() / the verification inside prover.assert_satisfied()
Verify ==
    /\ pc = "verify"
    /\ failures' = verify(cs, advice, selectors, table, copies, regions, instance,
                          NumRows(circuit))
    /\ pc' = "verified"
    /\ UNCHANGED <<inputs, instance, cs, advice, selectors, table, copies, regions,
                   locals, result, run, first, hist>>

\* main: prover.assert_satisfied() panics when the failure list is not empty
Main_AssertSatisfied ==
    /\ pc = "verified"
    /\ circuit \in Fibonacci
    /\ IF failures # << >>
       THEN /\ result' = "Panic"
            /\ pc' = "panicked"
       ELSE /\ pc' = IF run = 1 THEN "rerun" ELSE "done"
            /\ UNCHANGED result
    /\ UNCHANGED <<inputs, instance, cs, advice, selectors, table, copies, regions,
                   locals, failures, run, first, hist>>

\* a prover: the constraint system, the table and the public input it was run on,
\* and its failure list
Prover ==
    [cs |-> cs, advice |-> advice, selectors |-> selectors, table |-> table,
     copies |-> copies, regions |-> regions, instance |-> instance,
     failures |-> failures]

\* main changing the first public seed instead of the public output.
ChangedSeed == 2 - 2

\* the element of public_input that main changes between its two runs
Changed == 2

\* main: public_input[2] += Fp::one(); MockProver::run(k, &circuit, vec![public_input])
\* builds a second prover from the same circuit; the first one stays as it is
Main_SecondRun ==
    /\ pc = "rerun"
    /\ first' = Prover
    /\ instance' = [instance EXCEPT ![Changed + 1] = F_add(@, 1)]
    /\ run' = 2
    /\ cs' = NoConstraintSystem
    /\ advice' = << >>
    /\ selectors' = {}
    /\ table' = << >>
    /\ copies' = << >>
    /\ regions' = << >>
    /\ pc' = "configure"
    /\ locals' = << >>
    /\ result' = "running"
    /\ failures' = << >>
    /\ hist' = NoHistory
    /\ UNCHANGED inputs

Next ==
    \/ ConfigureStep
    \/ E1_Enable \/ E1_AssignAdvice
    \/ E2_Load \/ E2_Enter \/ E2_AssignAdvice
    \/ R_FirstEnable \/ R_FirstA \/ R_FirstB \/ R_FirstC
    \/ R_ExposeA \/ R_ExposeB
    \/ R_RowEnable \/ R_RowCopyA \/ R_RowCopyB \/ R_RowC
    \/ R_ExposeOut
    \/ T_Enable \/ T_FromInstance \/ T_LoopEnable \/ T_LoopAssign \/ T_Expose
    \/ Verify
    \/ Main_AssertSatisfied \/ Main_SecondRun

\* the runs of the tests and of main, where no layouter call fails
Spec == Init /\ [][Next]_vars

\* the same runs where any layouter call may return Err
SpecFault == InitFault /\ [][Next]_vars


----------------------------------------------------------------------------
(* The two layouts run one after the other on the same circuit value and   *)
(* the same public input, to compare their verification outcomes.          *)

Equiv_Switch ==
    /\ pc = "verified"
    /\ run = 1
    /\ circuit = "appraoch1_2"
    /\ first' = Prover
    /\ circuit' = "appraoch2"
    /\ run' = 2
    /\ cs' = NoConstraintSystem
    /\ advice' = << >>
    /\ selectors' = {}
    /\ table' = << >>
    /\ copies' = << >>
    /\ regions' = << >>
    /\ pc' = "configure"
    /\ locals' = << >>
    /\ result' = "running"
    /\ failures' = << >>
    /\ hist' = NoHistory
    /\ UNCHANGED <<params, priv, faults, instance>>

InitEquiv == Init /\ circuit = "appraoch1_2"

NextEquiv ==
    \/ ConfigureStep
    \/ R_FirstEnable \/ R_FirstA \/ R_FirstB \/ R_FirstC
    \/ R_ExposeA \/ R_ExposeB
    \/ R_RowEnable \/ R_RowCopyA \/ R_RowCopyB \/ R_RowC
    \/ R_ExposeOut
    \/ T_Enable \/ T_FromInstance \/ T_LoopEnable \/ T_LoopAssign \/ T_Expose
    \/ Verify
    \/ Equiv_Switch

SpecEquiv == InitEquiv /\ [][NextEquiv]_vars

----------------------------------------------------------------------------
(* The rotation circuit with FibonacciChip::assign called on any number of *)
(* rows nrows >= 2, not only the 10 that synthesize passes.                *)

InitRows ==
    /\ circuit = "appraoch2"
    /\ params \in [nrows : 2..MaxRows]
    /\ priv \in [a : Seeds, b : Seeds]
    /\ \E x \in 0..MaxSeed, y \in 0..MaxSeed :
          \E out \in Outputs(priv.a, priv.b, x, y) : instance = <<x, y, out>>
    /\ run = 1
    /\ first = NoProver
    /\ FreshProver
    /\ faults = FALSE

NextRows ==
    \/ ConfigureStep
    \/ T_Enable \/ T_FromInstance \/ T_LoopEnable \/ T_LoopAssign \/ T_Expose
    \/ Verify

SpecRows == InitRows /\ [][NextRows]_vars

----------------------------------------------------------------------------
(* One layout run twice on the same public input, the second time with a   *)
(* circuit whose private seeds differ, to compare the two provers.         *)

Seeds_Switch ==
    /\ pc = "verified"
    /\ run = 1
    /\ first' = [priv |-> priv] @@ Prover
    /\ \E other \in [a : Seeds, b : Seeds] :
          /\ other # priv
          /\ priv' = other
    /\ run' = 2
    /\ cs' = NoConstraintSystem
    /\ advice' = << >>
    /\ selectors' = {}
    /\ table' = << >>
    /\ copies' = << >>
    /\ regions' = << >>
    /\ pc' = "configure"
    /\ locals' = << >>
    /\ result' = "running"
    /\ failures' = << >>
    /\ hist' = NoHistory
    /\ UNCHANGED <<circuit, params, faults, instance>>

\* any seeds, public seeds 0..MaxSeed, and the right public output or a wrong one
InitSeeds ==
    /\ circuit \in Fibonacci
    /\ params = [nrows |-> NRows]
    /\ priv \in [a : Seeds, b : Seeds]
    /\ \E x \in 0..MaxSeed, y \in 0..MaxSeed : \E d \in {0, 1} :
          instance = <<x, y, F_add(Term(x, y, NRows), d)>>
    /\ run = 1
    /\ first = NoProver
    /\ FreshProver
    /\ faults = FALSE

NextSeeds ==
    \/ ConfigureStep
    \/ R_FirstEnable \/ R_FirstA \/ R_FirstB \/ R_FirstC
    \/ R_ExposeA \/ R_ExposeB
    \/ R_RowEnable \/ R_RowCopyA \/ R_RowCopyB \/ R_RowC
    \/ R_ExposeOut
    \/ T_Enable \/ T_FromInstance \/ T_LoopEnable \/ T_LoopAssign \/ T_Expose
    \/ Verify
    \/ Seeds_Switch

SpecSeeds == InitSeeds /\ [][NextSeeds]_vars

----------------------------------------------------------------------------
(* The claims.                                                             *)

\* the kinds of a failure list, in order
Kinds(fs) == [i \in 1..Len(fs) |-> fs[i].kind]

\* the failures of one kind
OfKind(fs, kind) == {i \in 1..Len(fs) : fs[i].kind = kind}

\* C1: in the range-check circuit of example1 with RANGE = R, a value v < R
\* verifies with zero failures; v = R gives exactly one failure, a
\* ConstraintNotSatisfied in region "Assign value" at offset 0 whose only cell
\* value is advice column 0 at rotation 0 holding R as printed ("0x8" for R = 8).
C1_RangeCheck ==
    (circuit = "example1" /\ pc = "verified") =>
        /\ priv.value < params.RANGE => failures = << >>
        /\ priv.value = params.RANGE =>
              /\ Len(failures) = 1
              /\ failures[1].kind = "ConstraintNotSatisfied"
              /\ failures[1].location.kind = "InRegion"
              /\ failures[1].location.region.name = "Assign value"
              /\ failures[1].location.offset = 0
              /\ failures[1].cell_values =
                    {[column |-> <<"Advice", 0>>, rotation |-> 0,
                      value |-> format_value(params.RANGE)]}
              /\ params.RANGE = 8 =>
                    \A cv \in failures[1].cell_values : cv.value = "0x8"

C1_Witness ==
    /\ circuit = "example1"
    /\ pc = "verified"
    /\ params.RANGE = TestRange
    /\ priv.value = TestRange
    /\ Len(failures) = 1

\* the failures of kind LookupFailure located at an absolute row
LookupFailuresAt(row) ==
    {i \in OfKind(failures, "LookupFailure") : failures[i].location = Location(regions, row)}

\* C2: with the table loaded with {0, ..., L-1}, a row with q_lookup enabled and
\* advice value v passes the lookup iff v < L; v = L gives a LookupFailure for
\* that row citing v.
C2_Lookup ==
    (circuit = "example2" /\ pc = "verified") =>
        \A row \in 0..(NumRows(circuit) - 1) :
            <<"q_lookup", row>> \in selectors =>
                LET v == AdviceAt(advice, 0, row)
                IN  /\ (LookupFailuresAt(row) = {}) <=> (v < params.LOOKUP_RANGE)
                    /\ v = params.LOOKUP_RANGE =>
                          \E i \in LookupFailuresAt(row) :
                              failures[i].value = format_value(v)

C2_Witness ==
    /\ circuit = "example2"
    /\ pc = "verified"
    /\ \E row \in 0..1 :
          /\ <<"q_lookup", row>> \in selectors
          /\ AdviceAt(advice, 0, row) = params.LOOKUP_RANGE
          /\ LookupFailuresAt(row) # {}

\* the cells expose_public bound to an instance row
Exposed(row) ==
    {i \in 1..Len(copies) :
        copies[i].via = "constrain_instance" /\ copies[i].right.row = row}

\* C3: with seeds a = 1, b = 1 and public input [1, 1, 55], synthesis in either
\* layout ends with the exposed output cell holding 55 and verification reports
\* zero failures.
C3_Fibonacci55 ==
    (/\ circuit \in Fibonacci
     /\ priv = [a |-> 1, b |-> 1]
     /\ instance = <<1, 1, 55>>
     /\ pc \in {"verify", "verified"}) =>
        /\ result = "Ok"
        /\ Exposed(OutRow) # {}
        /\ \A i \in Exposed(OutRow) : CellValue(copies[i].left, advice, instance) = 55
        /\ pc = "verified" => failures = << >>

C3_Witness ==
    /\ circuit = "appraoch1_2"
    /\ priv = [a |-> 1, b |-> 1]
    /\ instance = <<1, 1, 55>>
    /\ pc = "verified"
    /\ Len(regions) = 8
    /\ failures = << >>

\* C4: with the witness output 55 (seeds 1, 1) and public input [1, 1, 56],
\* verification in either layout reports exactly one failure, a
\* PublicInputMismatch for the cell bound to instance row 2, and no
\* ConstraintNotSatisfied.
C4_WrongOutput ==
    (/\ circuit \in Fibonacci
     /\ priv = [a |-> 1, b |-> 1]
     /\ instance = <<1, 1, 56>>
     /\ pc = "verified") =>
        /\ Len(failures) = 1
        /\ failures[1].kind = "PublicInputMismatch"
        /\ failures[1].row = 2
        /\ \E i \in Exposed(2) : copies[i].left = failures[1].cell
        /\ CellValue(failures[1].cell, advice, instance) = 55
        /\ OfKind(failures, "ConstraintNotSatisfied") = {}

C4_Witness ==
    /\ circuit = "appraoch2"
    /\ priv = [a |-> 1, b |-> 1]
    /\ instance = <<1, 1, 56>>
    /\ pc = "verified"
    /\ Len(failures) = 1

\* C5: for known seeds (a, b) and public input [a, b, out], the row-local circuit
\* and the rotation circuit give the same verification outcome: the same kinds
\* of failures, in the same number.
C5_LayoutEquivalence ==
    (/\ run = 2
     /\ pc = "verified"
     /\ instance[1] = priv.a
     /\ instance[2] = priv.b) =>
        Kinds(failures) = Kinds(first.failures)

C5_Witness ==
    /\ run = 2
    /\ circuit = "appraoch2"
    /\ pc = "verified"
    /\ instance[1] = priv.a
    /\ instance[2] = priv.b
    /\ Kinds(failures) = <<"PublicInputMismatch">>
    /\ Kinds(first.failures) = <<"PublicInputMismatch">>

\* C6: example2 with RANGE = 8 and LOOKUP_RANGE = 256, value = large_value = i
\* for i < RANGE: synthesize runs to completion, the assertion range <= RANGE
\* holding at every call of assign, and the verifier reports zero failures.
C6_Example2Completes ==
    (/\ circuit = "example2"
     /\ params = [RANGE |-> 8, LOOKUP_RANGE |-> 256]
     /\ priv.value = priv.large_value
     /\ priv.value < params.RANGE) =>
        /\ result # "Panic"
        /\ pc = "e2_enter" => AssignRange <= params.RANGE
        /\ pc = "verified" => failures = << >>

\* C7: the ConstraintNotSatisfied produced for value = RANGE names constraint 0
\* "range check" of gate 0 "range check".
C7_FailureNames ==
    (circuit = "example1" /\ pc = "verified" /\ priv.value = params.RANGE) =>
        \A i \in OfKind(failures, "ConstraintNotSatisfied") :
            /\ failures[i].gate = [index |-> 0, name |-> "range check"]
            /\ failures[i].constraint = [index |-> 0, name |-> "range check"]

\* the table and constraint system of the running prover
Frozen == <<cs, advice, selectors, table, copies, regions>>

C9_FailFast ==
    hist.errored => (result = "Err" /\ hist.after = 0)

\* C10: the "first row" region and the seven "next row" regions of the row-local
\* synthesize lie at pairwise disjoint rows in request order, each reserves one
\* row, and the rows consumed are at least the sum of the extents, 8.
C10_RegionPlacement ==
    circuit = "appraoch1_2" =>
        /\ \A i \in 1..Len(regions) : \A j \in 1..Len(regions) :
              i < j => regions[i].start + regions[i].rows <= regions[j].start
        /\ \A i \in 1..Len(regions) :
              regions[i].name = IF i = 1 THEN "first row" ELSE "next row"
        /\ (pc \in {"verify", "verified"}) =>
              /\ Len(regions) = 8
              /\ \A i \in 1..Len(regions) : regions[i].rows = 1
              /\ Cursor(regions) >= 8
              /\ \A cell \in DOMAIN advice :
                    \E i \in 1..Len(regions) : cell[2] = regions[i].start

C10_Witness ==
    /\ circuit = "appraoch1_2"
    /\ pc = "verified"
    /\ Len(regions) = 8
    /\ Cursor(regions) = 8

RECURSIVE Degree(_)
\* the degree of an expression as a polynomial in the queried cells
Degree(e) ==
    CASE e.tag = "Constant" -> 0
      [] e.tag \in {"Advice", "Selector"} -> 1
      [] e.tag = "Sum" -> Max(Degree(e.l), Degree(e.r))
      [] e.tag = "Product" -> Degree(e.l) + Degree(e.r)
      [] e.tag = "Negated" -> Degree(e.e)

RECURSIVE ReferenceProduct(_, _)
\* prod_{i = 0}^{R - 1} (i - v) in the field
ReferenceProduct(R, v) ==
    IF R = 0 THEN 1
    ELSE F_mul(ReferenceProduct(R - 1, v), F_add(F_from(R - 1), F_neg(v)))

\* the expression configure hands to Constraints::with_selector for the gate
\* "Range check": the constraint's polynomial without the selector factor
RangeCheckExpr == cs.gates[1].constraints[1].poly.r

\* C11: for every range R the constraint expression that configure builds is the
\* polynomial prod_{i = 0}^{R - 1} (i - value): it has degree R in value and, at
\* every row holding a witnessed value v, it evaluates to that product at v.
C11_GateAlgebra ==
    (circuit \in {"example1", "example2"} /\ pc \in {"verify", "verified"}) =>
        /\ Degree(RangeCheckExpr) = params.RANGE
        /\ \A cell \in DOMAIN advice :
              Eval(RangeCheckExpr, cell[2], advice, selectors)
                  = ReferenceProduct(params.RANGE, advice[cell])

\* C12: in synthesize of example2 the row holding value (declared range RANGE)
\* has q_range_check enabled and q_lookup not enabled; with LOOKUP_RANGE > RANGE
\* the second call of assign gives large_value a row that has q_lookup enabled
\* and q_range_check not enabled.
C12_Dispatch ==
    circuit = "example2" =>
        /\ Len(regions) >= 1 =>
              /\ <<"q_range_check", regions[1].start>> \in selectors
              /\ <<"q_lookup", regions[1].start>> \notin selectors
        /\ (/\ params.LOOKUP_RANGE > params.RANGE
            /\ pc \notin {"configure", "e2_load", "e2_enter"}
            /\ locals.call = 2) =>
              /\ Len(regions) = 2
              /\ <<"q_lookup", regions[2].start>> \in selectors
              /\ <<"q_range_check", regions[2].start>> \notin selectors

\* C13: while RangeCheckTable::load runs, the table column holds the field
\* element i at offset i for the cells written so far, in increasing order of
\* offset, without a gap and each offset once; after load has returned Ok the
\* offsets written are exactly 0..RANGE-1 (RANGE being the table's LOOKUP_RANGE).
C13_TableLoaded ==
    (circuit = "example2" /\ pc # "configure") =>
        /\ \A k \in 1..Len(table) : table[k] = <<k - 1, F_from(k - 1)>>
        /\ pc = "e2_load" => Len(table) = locals.i /\ Len(table) = locals.offset
        /\ pc # "e2_load" => Len(table) = params.LOOKUP_RANGE

C13_Witness ==
    /\ circuit = "example2"
    /\ pc = "e2_enter"
    /\ locals.call = 1
    /\ params.LOOKUP_RANGE = TestLookupRange
    /\ Len(table) = TestLookupRange
    /\ table[TestLookupRange] = <<255, 255>>

\* the rows of the region at which the gate's selector is enabled
SelectorRows == {r \in 0..(K4Rows - 1) : <<"selector", regions[1].start + r>> \in selectors}

\* C14: for every nrows >= 2 passed to FibonacciChip::assign, every row r at
\* which the selector is enabled satisfies r + 2 <= nrows - 1; when assign has
\* returned, the cells at r, r + 1 and r + 2 are assigned cells of the region
\* and the selector is enabled exactly at rows 0..nrows-3.
C14_SelectorBounds ==
    (circuit = "appraoch2" /\ params.nrows >= 2 /\ Len(regions) >= 1) =>
        /\ \A r \in SelectorRows : r + 2 <= params.nrows - 1
        /\ pc \in {"t_expose", "verify", "verified"} =>
              /\ SelectorRows = 0..(params.nrows - 3)
              /\ \A r \in SelectorRows : \A d \in 0..2 :
                    /\ <<0, regions[1].start + r + d>> \in DOMAIN advice
                    /\ r + d < regions[1].rows

\* the row of region i of the row-local synthesis (0 the "first row" region)
RowOf(i) == regions[i + 1].start

\* whether the cell of a column at the row of region i has been assigned
Assigned(column, i) == <<column, RowOf(i)>> \in DOMAIN advice

\* the assigned advice cells, as cell coordinates
AssignedCells == {AdviceCell(c[1], c[2]) : c \in DOMAIN advice}

\* C15: after any number of "next row" regions of the row-local synthesis, for
\* every such region i >= 1: a_i is in the copy group of b_{i-1}, b_i is in the
\* copy group of c_{i-1}, and c_i = a_i + b_i; all cells of one copy group hold
\* the same value; and a + b - c = 0 at every selector-enabled row whose cells
\* are assigned.
C15_Shifting ==
    circuit = "appraoch1_2" =>
        /\ \A i \in 1..(Len(regions) - 1) :
              /\ Assigned(0, i) =>
                    AdviceCell(1, RowOf(i - 1)) \in Group(AdviceCell(0, RowOf(i)), copies)
              /\ Assigned(1, i) =>
                    AdviceCell(2, RowOf(i - 1)) \in Group(AdviceCell(1, RowOf(i)), copies)
              /\ Assigned(2, i) =>
                    advice[<<2, RowOf(i)>>]
                        = F_add(advice[<<0, RowOf(i)>>], advice[<<1, RowOf(i)>>])
        /\ \A x \in AssignedCells : \A y \in Group(x, copies) :
              CellValue(y, advice, instance) = CellValue(x, advice, instance)
        /\ \A i \in 0..(Len(regions) - 1) :
              (<<"selector", RowOf(i)>> \in selectors /\ Assigned(2, i)) =>
                  \A g \in 1..Len(cs.gates) : \A c \in 1..Len(cs.gates[g].constraints) :
                      Eval(cs.gates[g].constraints[c].poly, RowOf(i), advice, selectors) = 0
        /\ pc = "verified" => OfKind(failures, "ConstraintNotSatisfied") = {}

\* a_7 and b_6 are in one group by transitivity only: both are copies of c_5
C15_Witness ==
    /\ circuit = "appraoch1_2"
    /\ pc = "verified"
    /\ Len(regions) = 8
    /\ AdviceCell(1, RowOf(6)) \in Group(AdviceCell(0, RowOf(7)), copies)
    /\ <<AdviceCell(0, RowOf(7)), AdviceCell(1, RowOf(6))>> \notin CopyPairs(copies)
    /\ <<AdviceCell(1, RowOf(6)), AdviceCell(0, RowOf(7))>> \notin CopyPairs(copies)
    /\ Cardinality(Group(AdviceCell(2, RowOf(5)), copies)) = 3

\* C16: for every LOOKUP_RANGE >= 1, a row where q_lookup is not enabled never
\* produces a LookupFailure, whatever value its advice cell holds: the lookup
\* input evaluates to 0 there and 0 is among the values loaded into the table.
C16_InactiveRows ==
    (circuit = "example2" /\ pc = "verified" /\ params.LOOKUP_RANGE >= 1) =>
        /\ 0 \in TableValues(table)
        /\ \A row \in 0..(NumRows(circuit) - 1) :
              <<"q_lookup", row>> \notin selectors =>
                  /\ \A l \in 1..Len(cs.lookups) :
                        Eval(cs.lookups[l].input, row, advice, selectors) = 0
                  /\ LookupFailuresAt(row) = {}

\* a row without q_lookup whose advice value is not in the table
C16_Witness ==
    /\ circuit = "example2"
    /\ pc = "verified"
    /\ \E row \in 0..1 :
          /\ <<0, row>> \in DOMAIN advice
          /\ <<"q_lookup", row>> \notin selectors
          /\ advice[<<0, row>>] \notin TableValues(table)
          /\ LookupFailuresAt(row) = {}

\* C17: in the rotation layout the circuit's fields a and b never reach the
\* witness table: synthesis succeeds whatever they are, and two runs with
\* different private (a, b) and the same public input give identical witness
\* tables and identical verification outcomes; in the row-local layout the
\* witness rows are computed from the private (a, b), so two such runs give
\* different witness tables.
C17_SeedIndependence ==
    /\ circuit = "appraoch2" =>
          /\ result # "Err"
          /\ (run = 2 /\ pc = "verified") =>
                /\ priv # first.priv
                /\ instance = first.instance
                /\ advice = first.advice
                /\ selectors = first.selectors
                /\ copies = first.copies
                /\ regions = first.regions
                /\ failures = first.failures
    /\ (circuit = "appraoch1_2" /\ pc \in {"verify", "verified"}) =>
          /\ \A i \in 0..(Len(regions) - 1) :
                /\ advice[<<0, RowOf(i)>>] = Term(priv.a, priv.b, i + 1)
                /\ advice[<<1, RowOf(i)>>] = Term(priv.a, priv.b, i + 2)
                /\ advice[<<2, RowOf(i)>>] = Term(priv.a, priv.b, i + 3)
          /\ run = 2 => (priv # first.priv /\ advice # first.advice)

C17_Witness ==
    /\ circuit = "appraoch2"
    /\ run = 2
    /\ pc = "verified"
    /\ first.priv = [a |-> 1, b |-> 1]
    /\ priv = [a |-> None, b |-> 2]
    /\ instance = <<1, 1, 55>>
    /\ advice = first.advice
    /\ advice[<<0, 9>>] = 55
    /\ failures = << >>

=============================================================================
